---- MODULE Spec2Model ----
(***************************************************************************)
(* The three tutorial programs of LLVM-C/: sum.c, Chapter1/sum.c and       *)
(* Chapter2/sum.c.  Each main() is a straight line of LLVM-C library calls *)
(* that builds the function "sum" in a module and then verifies and emits  *)
(* it.  A state is the position in main, the module being built, the       *)
(* builder, the target handle and machine, the two output streams, the     *)
(* files written and the log of library calls made so far.                 *)
(*                                                                         *)
(* The library is external: a fallible call returns either outcome.  A     *)
(* pointer the source leaves uninitialised holds an indeterminate value:   *)
(* a write or read through it either faults or lands in mapped memory.     *)
(***************************************************************************)
EXTENDS Integers, Sequences, FiniteSets, TLC

VARIABLES
    prog,           \* which of the three programs runs
    pc,             \* index of the next statement of main
    status,         \* "running", "returned", "crashed" or "aborted"
    exit,           \* how the process ended: "none", "0", "SIGSEGV", "SIGABRT"
    mod,            \* LLVMModuleRef mod
    ret_type,       \* LLVMTypeRef ret_type (the function type)
    builder,        \* LLVMBuilderRef builder
    error,          \* char *error
    mem,            \* LLVMMemoryBufferRef mem
    initialized,    \* the LLVMInitializeAll* calls made so far
    targetRef,      \* the target handle
    targetMachineRef, \* the target machine and the handle it was created from
    files,          \* names of the files written, in order
    stdout,         \* lines printed on standard output
    stderr,         \* lines printed on standard error
    calls,          \* library calls made so far, with their results
    args,           \* the arguments of a call of the built function
    frame           \* the activation of the built function

vars == <<prog, pc, status, exit, mod, ret_type, builder, error, mem,
          initialized, targetRef, targetMachineRef, files, stdout, stderr,
          calls, args, frame>>

----------------------------------------------------------------------------
(* Bounds and constants *)

\* Arguments tried are within MaxArg of 0, of INT_MAX and of INT_MIN.
MaxArg == 1

\* LLVMInt32Type(): the width of the parameters and of the result.
Width == 32

Half == 2 ^ (Width \div 2)

MaxI32 == (2 ^ (Width - 2) - 1) * 2 + 1

MinI32 == (-MaxI32) - 1

I32 == "i32"

----------------------------------------------------------------------------
(* The statements of each main, in source order.  out and err say what the *)
(* call is given to write its result and its error message through:        *)
(* "none", "local" (the address of a local) or "uninit" (a pointer that    *)
(* was declared and never set).  onFail is what main does with a failure.  *)

Stmt(line, call, arg) ==
    [line |-> line, call |-> call, arg |-> arg,
     out |-> "none", err |-> "none", onFail |-> "none"]

Fallible(line, call, arg, out, err, onFail) ==
    [line |-> line, call |-> call, arg |-> arg,
     out |-> out, err |-> err, onFail |-> onFail]

\* The calls that build the function: lines 20-34 of sum.c and of
\* Chapter2/sum.c (up == 0), and lines 20-33 of Chapter1/sum.c, where the
\* last four stand one line higher (up == 1).
BuildStmts(up) ==
    << Stmt(20, "LLVMModuleCreateWithName", "my_module"),
       Stmt(24, "LLVMFunctionType", ""),
       Stmt(25, "LLVMAddFunction", "sum"),
       Stmt(26, "LLVMAppendBasicBlock", "entry"),
       Stmt(29 - up, "LLVMCreateBuilder", ""),
       Stmt(30 - up, "LLVMPositionBuilderAtEnd", "entry"),
       Stmt(33 - up, "LLVMBuildAdd", "tmp"),
       Stmt(34 - up, "LLVMBuildRet", "tmp") >>

\* Chapter1's main with the builder disposed before the ret is built.
Chapter1_mainDisposeEarly ==
    SubSeq(BuildStmts(1), 1, 7) \o
    << Stmt(46, "LLVMDisposeBuilder", ""),
       Stmt(33, "LLVMBuildRet", "tmp"),
       Fallible(37, "LLVMVerifyModule", "", "local", "local", "abort"),
       Stmt(38, "LLVMDisposeMessage", ""),
       Fallible(41, "LLVMWriteBitcodeToFile", "sum.bc", "none", "none", "stderr") >>

Chapter1_main ==
    BuildStmts(1) \o
    << Fallible(37, "LLVMVerifyModule", "", "local", "local", "abort"),
       Stmt(38, "LLVMDisposeMessage", ""),
       Fallible(41, "LLVMWriteBitcodeToFile", "sum.bc", "none", "none", "stderr"),
       Stmt(46, "LLVMDisposeBuilder", "") >>

Chapter2_main ==
    BuildStmts(0) \o
    << Stmt(40, "printf", "x86_64"),
       Stmt(47, "LLVMInitializeAllTargets", ""),
       Stmt(48, "LLVMInitializeAllTargetMCs", ""),
       Stmt(49, "LLVMInitializeAllTargetInfos", ""),
       Stmt(50, "LLVMInitializeAllAsmPrinters", ""),
       Fallible(59, "LLVMGetTargetFromTriple", "x86_64", "local", "uninit", "stdout"),
       Stmt(75, "LLVMCreateTargetMachine", "x86_64"),
       Fallible(81, "LLVMTargetMachineEmitToFile", "sum_llvm.o", "none", "uninit", "stdout"),
       Fallible(88, "LLVMTargetMachineEmitToFile", "sum_llvm.asm", "none", "uninit", "stdout"),
       Fallible(101, "LLVMVerifyModule", "", "local", "local", "abort"),
       Stmt(102, "LLVMDisposeMessage", ""),
       Stmt(104, "LLVMDisposeBuilder", "") >>

Root_main ==
    BuildStmts(0) \o
    << Fallible(38, "LLVMVerifyModule", "", "local", "local", "abort"),
       Stmt(39, "LLVMDisposeMessage", ""),
       Fallible(42, "LLVMWriteBitcodeToFile", "sum.bc", "none", "none", "stderr"),
       Stmt(46, "LLVMWriteBitcodeToMemoryBuffer", ""),
       Stmt(51, "printf", "x86_64"),
       Fallible(58, "LLVMGetTargetFromTriple", "x86_64", "uninit", "uninit", "stdout"),
       Stmt(63, "printf", "res"),
       Stmt(74, "LLVMCreateTargetMachine", "x86_64"),
       Fallible(79, "LLVMTargetMachineEmitToFile", "spec_sum.bc", "none", "uninit", "ignore"),
       Fallible(84, "LLVMTargetMachineEmitToMemoryBuffer", "", "local", "uninit", "ignore"),
       Stmt(86, "LLVMDisposeBuilder", "") >>

Progs == {"Chapter1", "Chapter2", "Root"}

Program(p) ==
    CASE p = "Chapter1" -> Chapter1_main
      [] p = "Chapter2" -> Chapter2_main
      [] OTHER          -> Root_main

----------------------------------------------------------------------------
(* Values of the library *)

NoModule == [name |-> "", funcs |-> << >>]

NoType == [ret |-> "", params |-> << >>, vararg |-> FALSE]

NoBuilder == [state |-> "none", block |-> ""]

NoMachine == [state |-> "none", target |-> "none"]

NoFrame == [ip |-> 0, regs |-> << >>, result |-> << >>]

NoValue == [kind |-> "none", idx |-> 0, name |-> ""]

\* LLVMGetParam(sum, i)
GetParam(i) == [kind |-> "param", idx |-> i, name |-> ""]

\* The value of an instruction already built (tmp).
InstrRef(name) == [kind |-> "instr", idx |-> 0, name |-> name]

\* LLVMInt32Type(), LLVMInt32Type() and LLVMFunctionType(LLVMInt32Type(),
\* param_types, 2, 0)
SumType == [ret |-> I32, params |-> << I32, I32 >>, vararg |-> FALSE]

\* LLVMBuildAdd(builder, LLVMGetParam(sum, 0), LLVMGetParam(sum, 1), "tmp")
AddInstrSameParam(name) ==
    [op |-> "add", type |-> I32, name |-> name,
     lhs |-> GetParam(0), rhs |-> GetParam(0)]

AddInstr(name) ==
    [op |-> "add", type |-> I32, name |-> name,
     lhs |-> GetParam(0), rhs |-> GetParam(1)]

\* LLVMBuildRet(builder, tmp)
RetInstr(name) ==
    [op |-> "ret", type |-> "void", name |-> "",
     lhs |-> InstrRef(name), rhs |-> NoValue]

\* The builder inserts at the end of the block it is positioned at.
Insert(m, label, ins) ==
    [m EXCEPT !.funcs =
        [f \in DOMAIN @ |->
            [@[f] EXCEPT !.blocks =
                [b \in DOMAIN @ |->
                    IF @[b].label = label
                    THEN [@[b] EXCEPT !.instrs = Append(@, ins)]
                    ELSE @[b]]]]]

\* The outcomes of an access through a pointer.
Deref(ptr) == IF ptr = "uninit" THEN {"fault", "mapped"} ELSE {"mapped"}

Running == status = "running" /\ pc <= Len(Program(prog))

Cur == Program(prog)[pc]

At(call) == Running /\ Cur.call = call

Logged(res) == Append(calls, [call |-> Cur.call, arg |-> Cur.arg, res |-> res])

\* The call returns and main goes on to its next statement.
Returns(res) ==
    /\ calls' = Logged(res)
    /\ pc' = pc + 1
    /\ UNCHANGED <<prog, status, exit>>

\* The call faults: the process is killed inside it.
Faults ==
    /\ calls' = Logged("fault")
    /\ status' = "crashed"
    /\ exit' = "SIGSEGV"
    /\ UNCHANGED <<prog, pc>>

----------------------------------------------------------------------------
(* The module verifier (LLVMVerifyModule), as far as the instructions     *)
(* these programs build: every block ends in its only terminator, an add   *)
(* has operands of its own type, and a ret returns the function's type.    *)

TypeOf(f, blk, k, v) ==
    CASE v.kind = "param" ->
            IF v.idx + 1 \in DOMAIN f.type.params THEN f.type.params[v.idx + 1] ELSE "undef"
      [] v.kind = "instr" ->
            IF \E j \in 1..(k - 1) : blk.instrs[j].name = v.name
            THEN (CHOOSE t \in {blk.instrs[j].type : j \in {j \in 1..(k - 1) : blk.instrs[j].name = v.name}} : TRUE)
            ELSE "undef"
      [] OTHER -> "undef"

InstrOK(f, blk, k) ==
    LET ins == blk.instrs[k] IN
    CASE ins.op = "add" -> /\ k < Len(blk.instrs)
                           /\ TypeOf(f, blk, k, ins.lhs) = ins.type
                           /\ TypeOf(f, blk, k, ins.rhs) = ins.type
      [] ins.op = "ret" -> /\ k = Len(blk.instrs)
                           /\ TypeOf(f, blk, k, ins.lhs) = f.type.ret
      [] OTHER -> FALSE

VerifierOK(m) ==
    \A f \in DOMAIN m.funcs :
        \A b \in DOMAIN m.funcs[f].blocks :
            LET blk == m.funcs[f].blocks[b] IN
            /\ Len(blk.instrs) > 0
            /\ \A k \in DOMAIN blk.instrs : InstrOK(m.funcs[f], blk, k)

----------------------------------------------------------------------------
(* Building the function *)

LLVMModuleCreateWithName ==
    /\ At("LLVMModuleCreateWithName")
    /\ mod' = [name |-> Cur.arg, funcs |-> << >>]
    /\ Returns("void")
    /\ UNCHANGED <<ret_type, builder, error, mem, initialized, targetRef,
                   targetMachineRef, files, stdout, stderr, args, frame>>

LLVMFunctionType ==
    /\ At("LLVMFunctionType")
    /\ ret_type' = SumType
    /\ Returns("void")
    /\ UNCHANGED <<mod, builder, error, mem, initialized, targetRef,
                   targetMachineRef, files, stdout, stderr, args, frame>>

LLVMAddFunction ==
    /\ At("LLVMAddFunction")
    /\ mod' = [mod EXCEPT !.funcs =
                  Append(@, [name |-> Cur.arg, type |-> ret_type, blocks |-> << >>])]
    /\ Returns("void")
    /\ UNCHANGED <<ret_type, builder, error, mem, initialized, targetRef,
                   targetMachineRef, files, stdout, stderr, args, frame>>

\* LLVMAppendBasicBlock(sum, "entry"): sum is the function just added.
LLVMAppendBasicBlock ==
    /\ At("LLVMAppendBasicBlock")
    /\ mod' = [mod EXCEPT !.funcs[Len(mod.funcs)].blocks =
                  Append(@, [label |-> Cur.arg, instrs |-> << >>])]
    /\ Returns("void")
    /\ UNCHANGED <<ret_type, builder, error, mem, initialized, targetRef,
                   targetMachineRef, files, stdout, stderr, args, frame>>

LLVMCreateBuilder ==
    /\ At("LLVMCreateBuilder")
    /\ builder' = [state |-> "live", block |-> ""]
    /\ Returns("void")
    /\ UNCHANGED <<mod, ret_type, error, mem, initialized, targetRef,
                   targetMachineRef, files, stdout, stderr, args, frame>>

LLVMPositionBuilderAtEnd ==
    /\ At("LLVMPositionBuilderAtEnd")
    /\ builder' = [builder EXCEPT !.block = Cur.arg]
    /\ Returns("void")
    /\ UNCHANGED <<mod, ret_type, error, mem, initialized, targetRef,
                   targetMachineRef, files, stdout, stderr, args, frame>>

LLVMBuildAdd ==
    /\ At("LLVMBuildAdd")
    /\ mod' = Insert(mod, builder.block, AddInstr(Cur.arg))
    /\ Returns("void")
    /\ UNCHANGED <<ret_type, builder, error, mem, initialized, targetRef,
                   targetMachineRef, files, stdout, stderr, args, frame>>

LLVMBuildRet ==
    /\ At("LLVMBuildRet")
    /\ mod' = Insert(mod, builder.block, RetInstr(Cur.arg))
    /\ Returns("void")
    /\ UNCHANGED <<ret_type, builder, error, mem, initialized, targetRef,
                   targetMachineRef, files, stdout, stderr, args, frame>>

Build ==
    \/ LLVMModuleCreateWithName
    \/ LLVMFunctionType
    \/ LLVMAddFunction
    \/ LLVMAppendBasicBlock
    \/ LLVMCreateBuilder
    \/ LLVMPositionBuilderAtEnd
    \/ LLVMBuildAdd
    \/ LLVMBuildRet

----------------------------------------------------------------------------
(* Verifying and emitting *)

\* LLVMVerifyModule(mod, LLVMAbortProcessAction, &error): a broken module
\* is reported on standard error and the process aborted.
LLVMVerifyModule ==
    /\ At("LLVMVerifyModule")
    /\ IF VerifierOK(mod)
       THEN /\ Returns("ok")
            /\ error' = "empty"
            /\ UNCHANGED stderr
       ELSE /\ calls' = Logged("fail")
            /\ status' = "aborted"
            /\ exit' = "SIGABRT"
            /\ stderr' = Append(stderr, "LLVM ERROR: Broken module found")
            /\ UNCHANGED <<prog, pc, error>>
    /\ UNCHANGED <<mod, ret_type, builder, mem, initialized, targetRef,
                   targetMachineRef, files, stdout, args, frame>>

LLVMDisposeMessage ==
    /\ At("LLVMDisposeMessage")
    /\ error' = "disposed"
    /\ Returns("void")
    /\ UNCHANGED <<mod, ret_type, builder, mem, initialized, targetRef,
                   targetMachineRef, files, stdout, stderr, args, frame>>

\* if (LLVMWriteBitcodeToFile(mod, "sum.bc") != 0) fprintf(stderr, ...)
LLVMWriteBitcodeToFile ==
    /\ At("LLVMWriteBitcodeToFile")
    /\ \E ok \in BOOLEAN :
          /\ files' = IF ok THEN Append(files, Cur.arg) ELSE files
          /\ stderr' = IF ~ok /\ Cur.onFail = "stderr"
                       THEN Append(stderr, "error writing bitcode to file, skipping")
                       ELSE stderr
          /\ Returns(IF ok THEN "ok" ELSE "fail")
    /\ UNCHANGED <<mod, ret_type, builder, error, mem, initialized, targetRef,
                   targetMachineRef, stdout, args, frame>>

LLVMWriteBitcodeToMemoryBuffer ==
    /\ At("LLVMWriteBitcodeToMemoryBuffer")
    /\ mem' = "bitcode"
    /\ Returns("void")
    /\ UNCHANGED <<mod, ret_type, builder, error, initialized, targetRef,
                   targetMachineRef, files, stdout, stderr, args, frame>>

\* printf("%s\n", triple) and printf("%d\n", res)
Printf ==
    /\ At("printf")
    /\ stdout' = Append(stdout, Cur.arg)
    /\ Returns("void")
    /\ UNCHANGED <<mod, ret_type, builder, error, mem, initialized, targetRef,
                   targetMachineRef, files, stderr, args, frame>>

InitializeCalls ==
    {"LLVMInitializeAllTargets", "LLVMInitializeAllTargetMCs",
     "LLVMInitializeAllTargetInfos", "LLVMInitializeAllAsmPrinters"}

LLVMInitializeAll ==
    /\ Running
    /\ Cur.call \in InitializeCalls
    /\ initialized' = initialized \cup {Cur.call}
    /\ Returns("void")
    /\ UNCHANGED <<mod, ret_type, builder, error, mem, targetRef,
                   targetMachineRef, files, stdout, stderr, args, frame>>

\* res = LLVMGetTargetFromTriple(triple, T, ErrorMessage);
\* if (res != 0) printf("%s\n", *ErrorMessage);
\* The library stores the target found, or NULL, through T, and on failure
\* the message through ErrorMessage.  Whether the triple is found is the
\* library's answer: main does not look at what has been initialized.
LLVMGetTargetFromTriple ==
    /\ At("LLVMGetTargetFromTriple")
    /\ \E found \in BOOLEAN, viaT \in Deref(Cur.out), viaE \in Deref(Cur.err) :
          IF viaT = "fault" \/ (~found /\ viaE = "fault")
          THEN /\ Faults
               /\ UNCHANGED <<targetRef, stdout>>
          ELSE /\ targetRef' = IF found THEN "valid" ELSE "null"
               /\ stdout' = IF ~found /\ Cur.onFail = "stdout"
                            THEN Append(stdout, "No available targets are compatible with triple")
                            ELSE stdout
               /\ Returns(IF found THEN "ok" ELSE "fail")
    /\ UNCHANGED <<mod, ret_type, builder, error, mem, initialized,
                   targetMachineRef, files, stderr, args, frame>>

\* LLVMCreateTargetMachine(targetRef, triple, cpu, "", ...): the library
\* calls through the handle, and a NULL handle faults.
LLVMCreateTargetMachine ==
    /\ At("LLVMCreateTargetMachine")
    /\ IF targetRef = "valid"
       THEN /\ targetMachineRef' = [state |-> "created", target |-> targetRef]
            /\ Returns("void")
       ELSE /\ targetMachineRef' = [state |-> "none", target |-> targetRef]
            /\ Faults
    /\ UNCHANGED <<mod, ret_type, builder, error, mem, initialized, targetRef,
                   files, stdout, stderr, args, frame>>

\* res = LLVMTargetMachineEmitToFile(targetMachineRef, mod, file, type, ErrorMessage);
\* if (res != 0) printf("%s\n", *ErrorMessage);      (Chapter2 only)
LLVMTargetMachineEmitToFile ==
    /\ At("LLVMTargetMachineEmitToFile")
    /\ \E ok \in BOOLEAN, viaE \in Deref(Cur.err) :
          IF ~ok /\ viaE = "fault"
          THEN /\ Faults
               /\ UNCHANGED <<files, stdout>>
          ELSE /\ files' = IF ok THEN Append(files, Cur.arg) ELSE files
               /\ stdout' = IF ~ok /\ Cur.onFail = "stdout"
                            THEN Append(stdout, "TargetMachine can't emit a file of this type")
                            ELSE stdout
               /\ Returns(IF ok THEN "ok" ELSE "fail")
    /\ UNCHANGED <<mod, ret_type, builder, error, mem, initialized, targetRef,
                   targetMachineRef, stderr, args, frame>>

\* LLVMTargetMachineEmitToMemoryBuffer(targetMachineRef, mod, LLVMObjectFile,
\* errPtrMem, &mem): the result is not looked at.
LLVMTargetMachineEmitToMemoryBuffer ==
    /\ At("LLVMTargetMachineEmitToMemoryBuffer")
    /\ \E ok \in BOOLEAN, viaE \in Deref(Cur.err) :
          IF ~ok /\ viaE = "fault"
          THEN /\ Faults
               /\ UNCHANGED mem
          ELSE /\ mem' = IF ok THEN "object" ELSE mem
               /\ Returns(IF ok THEN "ok" ELSE "fail")
    /\ UNCHANGED <<mod, ret_type, builder, error, initialized, targetRef,
                   targetMachineRef, files, stdout, stderr, args, frame>>

LLVMDisposeBuilder ==
    /\ At("LLVMDisposeBuilder")
    /\ builder' = [builder EXCEPT !.state = "disposed"]
    /\ Returns("void")
    /\ UNCHANGED <<mod, ret_type, error, mem, initialized, targetRef,
                   targetMachineRef, files, stdout, stderr, args, frame>>

\* The closing brace of main: main returns 0.
Return ==
    /\ status = "running"
    /\ pc = Len(Program(prog)) + 1
    /\ status' = "returned"
    /\ exit' = "0"
    /\ UNCHANGED <<prog, pc, mod, ret_type, builder, error, mem, initialized,
                   targetRef, targetMachineRef, files, stdout, stderr, calls,
                   args, frame>>

Init ==
    /\ prog \in Progs
    /\ pc = 1
    /\ status = "running"
    /\ exit = "none"
    /\ mod = NoModule
    /\ ret_type = NoType
    /\ builder = NoBuilder
    /\ error = "null"
    /\ mem = "unset"
    /\ initialized = {}
    /\ targetRef = "unset"
    /\ targetMachineRef = NoMachine
    /\ files = << >>
    /\ stdout = << >>
    /\ stderr = << >>
    /\ calls = << >>
    /\ args = << 0, 0 >>
    /\ frame = NoFrame

Next ==
    \/ Build
    \/ LLVMVerifyModule
    \/ LLVMDisposeMessage
    \/ LLVMWriteBitcodeToFile
    \/ LLVMWriteBitcodeToMemoryBuffer
    \/ Printf
    \/ LLVMInitializeAll
    \/ LLVMGetTargetFromTriple
    \/ LLVMCreateTargetMachine
    \/ LLVMTargetMachineEmitToFile
    \/ LLVMTargetMachineEmitToMemoryBuffer
    \/ LLVMDisposeBuilder
    \/ Return

Spec == Init /\ [][Next]_vars

----------------------------------------------------------------------------
(* Calling the function that was built.  An i32 is held as the signed      *)
(* integer its 32 bits stand for; add i32 adds the two 16-bit halves with  *)
(* the carry between them and drops the carry out of the upper half.       *)

Lo(x) == x % Half

Hi(x) == (x \div Half) % Half

AddI32(x, y) ==
    LET lo    == Lo(x) + Lo(y)
        hi    == (Hi(x) + Hi(y) + (lo \div Half)) % Half
        upper == IF hi >= Half \div 2 THEN hi - Half ELSE hi
    IN  upper * Half + (lo % Half)

\* The function the programs add to the module.
Sum == mod.funcs[1]

Built ==
    /\ status = "running"
    /\ pc > Len(BuildStmts(0))

ValueOf(v) ==
    IF v.kind = "param" THEN args[v.idx + 1] ELSE frame.regs[v.name]

\* The function is entered at the first instruction of its first block.
CallSum ==
    /\ Built
    /\ frame.ip = 0
    /\ frame.result = << >>
    /\ frame' = [ip |-> 1, regs |-> << >>, result |-> << >>]
    /\ UNCHANGED <<prog, pc, status, exit, mod, ret_type, builder, error, mem,
                   initialized, targetRef, targetMachineRef, files, stdout,
                   stderr, calls, args>>

ExecInstr ==
    /\ Built
    /\ frame.ip \in DOMAIN Sum.blocks[1].instrs
    /\ LET ins == Sum.blocks[1].instrs[frame.ip] IN
       IF ins.op = "add"
       THEN frame' = [frame EXCEPT
                         !.ip = @ + 1,
                         !.regs = (ins.name :> AddI32(ValueOf(ins.lhs), ValueOf(ins.rhs))) @@ @]
       ELSE frame' = [frame EXCEPT !.ip = 0, !.result = << ValueOf(ins.lhs) >>]
    /\ UNCHANGED <<prog, pc, status, exit, mod, ret_type, builder, error, mem,
                   initialized, targetRef, targetMachineRef, files, stdout,
                   stderr, calls, args>>

ArgVals ==
    UNION {{x, -x, MaxI32 - x, MinI32 + x} : x \in 0..MaxArg}

InitSum ==
    /\ prog \in Progs
    /\ pc = 1
    /\ status = "running"
    /\ exit = "none"
    /\ mod = NoModule
    /\ ret_type = NoType
    /\ builder = NoBuilder
    /\ error = "null"
    /\ mem = "unset"
    /\ initialized = {}
    /\ targetRef = "unset"
    /\ targetMachineRef = NoMachine
    /\ files = << >>
    /\ stdout = << >>
    /\ stderr = << >>
    /\ calls = << >>
    /\ args \in ArgVals \X ArgVals
    /\ frame = NoFrame

NextSum ==
    \/ Build
    \/ CallSum
    \/ ExecInstr

SpecSum == InitSum /\ [][NextSum]_vars

----------------------------------------------------------------------------
(* The claims *)

Failed == {i \in DOMAIN calls : calls[i].res = "fail"}

Made(call, arg) ==
    \E i \in DOMAIN calls : calls[i].call = call /\ calls[i].arg = arg

Before(i, call) == \E j \in 1..(i - 1) : calls[j].call = call

Written(file) == Cardinality({i \in DOMAIN files : files[i] = file})

\* a + b reduced modulo 2^32 into the range of int, without ever leaving
\* that range on the way.
SumMod32(a, b) ==
    IF a >= 0 /\ b >= 0 /\ a > MaxI32 - b
    THEN (a + MinI32) + (b + MinI32)
    ELSE IF a < 0 /\ b < 0 /\ a < MinI32 - b
         THEN (a - MinI32) + (b - MinI32)
         ELSE a + b

\* C1: once the build statements have run, the module holds one function,
\* "sum", of type i32 (i32, i32), with the single block "entry" whose body is
\* tmp = add param 0, param 1 followed by ret tmp; and a call of it with
\* arguments a and b returns (a + b) modulo 2^32.
C1_SumAddsItsParameters ==
    /\ Built =>
          /\ Len(mod.funcs) = 1
          /\ Sum.name = "sum"
          /\ Sum.type.ret = "i32"
          /\ Sum.type.params = << "i32", "i32" >>
          /\ Len(Sum.blocks) = 1
          /\ Sum.blocks[1].label = "entry"
          /\ Len(Sum.blocks[1].instrs) = 2
          /\ Sum.blocks[1].instrs[1].op = "add"
          /\ Sum.blocks[1].instrs[1].lhs = [kind |-> "param", idx |-> 0, name |-> ""]
          /\ Sum.blocks[1].instrs[1].rhs = [kind |-> "param", idx |-> 1, name |-> ""]
          /\ Sum.blocks[1].instrs[2].op = "ret"
          /\ Sum.blocks[1].instrs[2].lhs.kind = "instr"
          /\ Sum.blocks[1].instrs[2].lhs.name = Sum.blocks[1].instrs[1].name
    /\ frame.result # << >> =>
          /\ frame.result[1] = SumMod32(args[1], args[2])
          /\ frame.result[1] \in MinI32..MaxI32

\* C1's case: the call has returned for arguments whose sum leaves the range
\* of int (INT_MAX + 1 wraps to INT_MIN).
C1_Witness ==
    /\ frame.result = << MinI32 >>
    /\ args = << MaxI32, 1 >>

\* C2: verification follows the last build call and precedes every emission
\* of the same run.
C2_BuildVerifyEmit ==
    \A i \in DOMAIN calls :
        /\ calls[i].call = "LLVMVerifyModule" => Before(i, "LLVMBuildRet")
        /\ calls[i].call \in {"LLVMWriteBitcodeToFile", "LLVMWriteBitcodeToMemoryBuffer",
                              "LLVMTargetMachineEmitToFile",
                              "LLVMTargetMachineEmitToMemoryBuffer"}
              => Before(i, "LLVMVerifyModule")

\* C3: every failure a fallible step has reported has its message on
\* standard error.
C3_FailurePrintsOnStderr ==
    Cardinality(Failed) <= Len(stderr)

\* C4: after a step has reported failure the process is never killed, and a
\* run that reaches the end of main has executed every statement of it.
C4_ContinuesAfterFailure ==
    /\ Failed # {} => status \in {"running", "returned"}
    /\ status = "returned" => Len(calls) = Len(Program(prog))

\* C5: a run of Chapter1 without failure has written sum.bc, a run of
\* Chapter2 without failure has written sum_llvm.o and sum_llvm.asm, no file
\* is written twice, and a run of Chapter2 that has attempted the object
\* file has, when it ends, attempted the assembly file too.
C5_EmittedInAllForms ==
    /\ (status = "returned" /\ prog = "Chapter1" /\ Failed = {})
          => Written("sum.bc") = 1
    /\ (status = "returned" /\ prog = "Chapter2" /\ Failed = {})
          => Written("sum_llvm.o") = 1 /\ Written("sum_llvm.asm") = 1
    /\ \A i \in DOMAIN files : Written(files[i]) = 1
    /\ (status # "running" /\ prog = "Chapter2"
          /\ Made("LLVMTargetMachineEmitToFile", "sum_llvm.o"))
          => Made("LLVMTargetMachineEmitToFile", "sum_llvm.asm")

\* C6: each step is made at most once, in the order of main, and a run in
\* which a step has failed ends as a run without failure does: main
\* returns 0.
C6_NoRetryNoPropagation ==
    /\ \A i, j \in DOMAIN calls :
          (calls[i].call = calls[j].call /\ calls[i].arg = calls[j].arg) => i = j
    /\ \A i \in DOMAIN calls :
          /\ i <= Len(Program(prog))
          /\ calls[i].call = Program(prog)[i].call
          /\ calls[i].arg = Program(prog)[i].arg
    /\ (Failed # {} /\ status # "running") => exit = "0"

\* C7: the four target initializations precede the target lookup and the
\* creation of the target machine.
C7_InitializedBeforeLookup ==
    \A i \in DOMAIN calls :
        calls[i].call \in {"LLVMGetTargetFromTriple", "LLVMCreateTargetMachine"}
            => \A c \in InitializeCalls : Before(i, c)

\* C8: a run that reaches the end of main has disposed the builder exactly
\* once, as its last library call, and no call positions the builder or
\* builds with it after it was disposed.
C8_BuilderDisposedOnceLast ==
    /\ status = "returned" =>
          /\ Cardinality({i \in DOMAIN calls : calls[i].call = "LLVMDisposeBuilder"}) = 1
          /\ calls[Len(calls)].call = "LLVMDisposeBuilder"
          /\ builder.state = "disposed"
    /\ \A i \in DOMAIN calls :
          calls[i].call \in {"LLVMPositionBuilderAtEnd", "LLVMBuildAdd", "LLVMBuildRet"}
              => ~Before(i, "LLVMDisposeBuilder")

\* C8's case: a run has reached the end of main after using the builder.
C8_Witness ==
    /\ status = "returned"
    /\ builder.state = "disposed"
    /\ Made("LLVMBuildRet", "tmp")

\* C9: the target machine is created only from a handle that a successful
\* lookup has set.
C9_MachineFromLookedUpTarget ==
    /\ targetMachineRef.target \in {"none", "valid"}
    /\ \A i \in DOMAIN calls :
          calls[i].call = "LLVMCreateTargetMachine"
              => \E j \in 1..(i - 1) :
                    calls[j].call = "LLVMGetTargetFromTriple" /\ calls[j].res = "ok"

====
